---- MODULE Spec2Model ----
(***************************************************************************)
(* Model of src/src/script.js: the render loop (tick, requestAnimationFrame *)
(* scheduling), the visibility gate (VisibilityManager and                  *)
(* handleVisibilityChange), the auto-rotation state machine (controls       *)
(* 'start'/'end', resumeRotation and its timer) and the motion-blur uniform *)
(* update performed inside tick.                                            *)
(*                                                                          *)
(* Every handler of the script runs to completion on the single JavaScript  *)
(* thread, so each handler is one action.  Times are in milliseconds.  The  *)
(* script uses performance.now() only through differences, so the model     *)
(* keeps the differences: the time left of every scheduled timer, the time  *)
(* since the clock's oldTime, the time since transitionStartTime.  Real     *)
(* numbers (seconds, radians, the speed multiplier, velocities) are exact   *)
(* rationals <<n, d>> in lowest terms with d > 0.                           *)
(***************************************************************************)
EXTENDS Integers, FiniteSets, Sequences, TLC

(***************************************************************************)
(* Bounds of the model.                                                     *)
(***************************************************************************)
MaxGap == 100
MaxTicks == 2
MaxUpdates == 3

Steps == {100}

(***************************************************************************)
(* CONFIG and the settings objects derived from it.                         *)
(***************************************************************************)
PAUSE_DELAY == 500
RESUME_DELAY == 700
TRANSITION_DURATION == 1200
AUTO_ROTATE_SPEED == <<1, 10>>
ENABLE_MOTION_BLUR == TRUE
motionIntensity == <<5, 1>>
velocitySmoothing == <<9, 10>>
rotationEnabled == TRUE
pauseOnInteraction == TRUE
smoothTransition == TRUE

(***************************************************************************)
(* Exact rational arithmetic.                                               *)
(***************************************************************************)
RECURSIVE GCD(_, _)
GCD(a, b) == IF b = 0 THEN a ELSE GCD(b, a % b)

Abs(x) == IF x < 0 THEN -x ELSE x

Frac(n, d) ==
    LET g == GCD(Abs(n), Abs(d))
        s == IF d < 0 THEN -1 ELSE 1
    IN  <<(s * n) \div g, (s * d) \div g>>

Zero == <<0, 1>>
One == <<1, 1>>

FAdd(x, y) ==
    LET g == GCD(x[2], y[2])
    IN  Frac(x[1] * (y[2] \div g) + y[1] * (x[2] \div g), x[2] * (y[2] \div g))

FNeg(x) == <<-x[1], x[2]>>
FSub(x, y) == FAdd(x, FNeg(y))

FMul(x, y) ==
    LET a == Frac(x[1], y[2])
        b == Frac(y[1], x[2])
    IN  <<a[1] * b[1], a[2] * b[2]>>

FDiv(x, y) == FMul(x, IF y[1] < 0 THEN <<-y[2], -y[1]>> ELSE <<y[2], y[1]>>)

FAbs(x) == <<Abs(x[1]), x[2]>>

\* x < y, computed without forming the cross products
FLess(x, y) == FSub(x, y)[1] < 0
FLeq(x, y) == FSub(x, y)[1] <= 0
FMin(x, y) == IF FLess(y, x) THEN y ELSE x
FMax(x, y) == IF FLess(x, y) THEN y ELSE x

\* x > 1/100, for x >= 0
FOverHundredth(x) == x[1] > x[2] \div 100

Seconds(ms) == Frac(ms, 1000)


(***************************************************************************)
(* State.                                                                   *)
(***************************************************************************)
VARIABLES
    isVisible,                \* VisibilityManager.isVisible
    pauseTimeout,             \* VisibilityManager.pauseTimeout (0 is null)
    timers,                   \* setTimeout callbacks scheduled and not yet run or cleared
    isRendering,
    animationFrameId,         \* 0 is null
    rafQueue,                 \* ids of the requestAnimationFrame callbacks outstanding
    clock,                    \* the THREE.Clock
    model,                    \* TRUE once gltfLoader has delivered the scene
    loaderPending,            \* gltfLoader.load has not called back yet
    autoRotate,
    userInteracting,
    resumeTimeout,            \* 0 is null
    rotationSpeedMultiplier,
    sinceTransitionStart,     \* performance.now() - transitionStartTime, kept while tick
                              \* can read it and up to TRANSITION_DURATION
    isMouseDown,
    isTouching,
    rotationY,                \* model.rotation.y
    previousRotation,
    smoothedVelocity,
    uAngularVelocity,         \* uniforms.uAngularVelocity.value
    modelTicks,               \* number of tick bodies run with the model loaded
    ticked,                   \* the last step executed a tick body
    lastDelta,                \* the delta computed by that tick body
    lastEvent,                \* what the last step was, for the steps the properties name
    loopStopped,              \* handleVisibilityChange(false) returned, no (true) call since
    sinceHidden,              \* time since the visible -> hidden notification, -1 if visible
    pausedEmits,              \* 'Rendering paused' messages since that notification
    sinceEnd,                 \* time since resumeRotation was called, -1 if a 'start' was
                              \* honored since
    drawFailed,               \* the last renderer.render call threw
    rendered,                 \* the model angle and the uniform as the last
                              \* renderer.render call found them
    sinceFired,               \* time since the resume timer callback set autoRotate, -1
                              \* if it has not or a 'start' was honored since
    firedStopped              \* isRendering was false when it did

visVars == <<isVisible, pauseTimeout>>
loopVars == <<isRendering, animationFrameId, rafQueue, clock>>
rotVars == <<autoRotate, userInteracting, resumeTimeout, sinceTransitionStart>>
pressVars == <<isMouseDown, isTouching>>
numVars == <<rotationSpeedMultiplier, rotationY, previousRotation, smoothedVelocity,
             uAngularVelocity, modelTicks>>
loadVars == <<model, loaderPending>>
histVars == <<loopStopped, sinceHidden, pausedEmits, sinceEnd>>
drawVars == <<drawFailed, rendered>>
fireVars == <<sinceFired, firedStopped>>

vars == <<timers, ticked, lastDelta, lastEvent, visVars, loopVars, rotVars, pressVars,
          numVars, loadVars, histVars, drawVars, fireVars>>

Min(a, b) == IF a < b THEN a ELSE b

(***************************************************************************)
(* Browser primitives: setTimeout / clearTimeout, requestAnimationFrame /   *)
(* cancelAnimationFrame.  Handles are opaque: the script only stores them    *)
(* and hands them back to clearTimeout or cancelAnimationFrame.  A timer is *)
(* [id, kind, left], left being the time until its callback is due.         *)
(***************************************************************************)
FreshId(used) == CHOOSE i \in 1..(Cardinality(used) + 1) : i \notin used

TimerIds(ts) == {t.id : t \in ts}

\* the handle setTimeout returns: one that no scheduled timer has.  The
\* script keeps one handle per kind of timer and overwrites it with the new
\* one, so a handle is only ever used for the timer scheduled last of its
\* kind; the pause timers are given the odd handles, the resume timers the
\* even ones, the smallest free.
NewTimerId(ts, kind) ==
    LET used == TimerIds(ts)
        p == IF kind = "pause" THEN 1 ELSE 2
        new == {2 * k + p : k \in 0..Cardinality(used)} \ used
    IN  CHOOSE i \in new : \A j \in new : i <= j

SetTimeout(ts, id, kind, delay) == ts \cup {[id |-> id, kind |-> kind, left |-> delay]}

\* clearTimeout that cancels nothing
ClearTimeout_none(ts, id) == ts

ClearTimeout(ts, id) == {t \in ts : t.id # id}

RequestAnimationFrame(q, id) == q \cup {id}

CancelAnimationFrame(q, id) == q \ {id}

(***************************************************************************)
(* THREE.Clock as used by the script: getDelta (line 599), start (640),     *)
(* stop (649).  A clock is [running, autoStart, sinceOld], sinceOld being   *)
(* performance.now() - oldTime, kept up to MaxGap.                          *)
(***************************************************************************)
\* the clock is set running without a new baseline
ClockStart_noReset(c) == [c EXCEPT !.running = TRUE]

ClockStart(c) == [c EXCEPT !.sinceOld = 0, !.running = TRUE]

ClockGetDelta(c) ==
    IF c.autoStart /\ ~c.running
    THEN [delta |-> Zero, clock |-> ClockStart(c)]
    ELSE IF c.running
         THEN [delta |-> Seconds(c.sinceOld), clock |-> [c EXCEPT !.sinceOld = 0]]
         ELSE [delta |-> Zero, clock |-> c]

ClockStop(c) == [ClockGetDelta(c).clock EXCEPT !.running = FALSE, !.autoStart = FALSE]

(***************************************************************************)
(* Rotation and motion blur computations of tick.                           *)
(***************************************************************************)
easePower2Out(t) == FMul(t, FSub(<<2, 1>>, t))

\* line 603: the condition under which tick reads transitionStartTime
TransitionRead(ar, m) == ar /\ smoothTransition /\ FLess(m, One)

\* the progress is used without the easing
TransitionMultiplier_linear(ar, m, transitionElapsed) ==
    IF TransitionRead(ar, m)
    THEN FMin(Frac(transitionElapsed, TRANSITION_DURATION), One)
    ELSE m

\* lines 603-607
TransitionMultiplier(ar, m, transitionElapsed) ==
    IF TransitionRead(ar, m)
    THEN LET transitionProgress == FMin(Frac(transitionElapsed, TRANSITION_DURATION), One)
         IN  easePower2Out(transitionProgress)
    ELSE m

\* the advance ignores the speed multiplier
RotationAdvance_noMultiplier(ar, ui, y, m, delta) ==
    IF ar /\ ~ui /\ rotationEnabled
    THEN FAdd(y, FMul(AUTO_ROTATE_SPEED, delta))
    ELSE y

\* the advance takes a frame of 1/60 s for granted instead of the delta
RotationAdvance_fixedStep(ar, ui, y, m, delta) ==
    IF ar /\ ~ui /\ rotationEnabled
    THEN FAdd(y, FMul(FMul(AUTO_ROTATE_SPEED, m), <<1, 60>>))
    ELSE y

\* lines 610-613
RotationAdvance(ar, ui, y, m, delta) ==
    IF ar /\ ~ui /\ rotationEnabled
    THEN FAdd(y, FMul(FMul(AUTO_ROTATE_SPEED, m), delta))
    ELSE y

\* line 618
RawVelocity(y, prev, delta) == FDiv(FAbs(FSub(y, prev)), FMax(delta, <<1, 1000>>))

\* the two weights are exchanged
Smooth_swapped(s, raw) ==
    FAdd(FMul(s, FSub(One, velocitySmoothing)), FMul(raw, velocitySmoothing))

\* line 619
Smooth(s, raw) == FAdd(FMul(s, velocitySmoothing), FMul(raw, FSub(One, velocitySmoothing)))

\* the product is not clamped
Normalize_noClamp(s) == FMul(s, motionIntensity)

\* line 621
Normalize(s) == FMin(FMul(s, motionIntensity), One)

\* the uniform is written on every update
UniformWrite_always(u, n) == n

\* lines 622-624
UniformWrite(u, n) == IF FOverHundredth(FAbs(FSub(u, n))) THEN n ELSE u

\* renderer.render reads the state before the updates of the tick
RenderReads_before(before, after) == before

\* line 631 comes after lines 612 and 623
RenderReads(before, after) == after

(***************************************************************************)
(* tick (lines 596-634), called with the value r of isRendering, the clock  *)
(* c and the outstanding callbacks q at the moment of the call.  drawn      *)
(* tells whether renderer.render (line 631) returns; when it throws, the    *)
(* exception leaves tick, and the caller of tick, before line 633.          *)
(***************************************************************************)
tick(r, c, q, drawn) ==
    IF ~r
    THEN /\ clock' = c
         /\ rafQueue' = q
         /\ ticked' = FALSE
         /\ lastDelta' = Zero
         /\ UNCHANGED <<animationFrameId, numVars, drawVars>>
    ELSE LET gd == ClockGetDelta(c)
             delta == gd.delta
             m == TransitionMultiplier(autoRotate, rotationSpeedMultiplier,
                                       sinceTransitionStart)
             y == RotationAdvance(autoRotate, userInteracting, rotationY, m, delta)
             s == Smooth(smoothedVelocity, RawVelocity(y, previousRotation, delta))
             id == FreshId(q)
         IN  /\ clock' = gd.clock
             /\ lastDelta' = delta
             /\ ticked' = TRUE
             /\ IF model
                THEN /\ rotationSpeedMultiplier' = m
                     /\ rotationY' = y
                     /\ modelTicks' = modelTicks + 1
                     /\ IF ENABLE_MOTION_BLUR
                        THEN /\ smoothedVelocity' = s
                             /\ uAngularVelocity' = UniformWrite(uAngularVelocity, Normalize(s))
                             /\ previousRotation' = y
                        ELSE UNCHANGED <<smoothedVelocity, uAngularVelocity, previousRotation>>
                ELSE UNCHANGED numVars
             /\ rendered' = RenderReads(
                    [rotationY |-> rotationY, uAngularVelocity |-> uAngularVelocity],
                    [rotationY |-> rotationY', uAngularVelocity |-> uAngularVelocity'])
             /\ drawFailed' = ~drawn
             /\ IF drawn
                THEN /\ animationFrameId' = id
                     /\ rafQueue' = RequestAnimationFrame(q, id)
                ELSE /\ rafQueue' = q
                     /\ UNCHANGED animationFrameId

\* the tick about to run may still update the numeric state
TickAllowed == model => modelTicks < MaxTicks

(***************************************************************************)
(* handleVisibilityChange (lines 637-652).                                  *)
(***************************************************************************)
\* the start does not test isRendering
StartsLoop_always(visible, r) == visible

\* the start tests isRendering the wrong way round
StartsLoop_inverted(visible, r) == visible /\ r

\* line 638
StartsLoop(visible, r) == visible /\ ~r

\* the stop tests isRendering the wrong way round
StopsLoop_inverted(visible, r) == ~visible /\ ~r

\* line 643
StopsLoop(visible, r) == ~visible /\ r

handleVisibilityChange(visible, drawn) ==
    IF StartsLoop(visible, isRendering)
    THEN /\ TickAllowed
         /\ isRendering' = TRUE
         /\ tick(TRUE, ClockStart(clock), rafQueue, drawn)
         /\ UNCHANGED pausedEmits
    ELSE IF StopsLoop(visible, isRendering)
    THEN /\ isRendering' = FALSE
         /\ IF animationFrameId # 0
            THEN /\ rafQueue' = CancelAnimationFrame(rafQueue, animationFrameId)
                 /\ animationFrameId' = 0
            ELSE UNCHANGED <<rafQueue, animationFrameId>>
         /\ clock' = ClockStop(clock)
         /\ pausedEmits' = pausedEmits + 1
         /\ ticked' = FALSE
         /\ lastDelta' = Zero
         /\ UNCHANGED <<numVars, drawVars>>
    ELSE /\ ticked' = FALSE
         /\ lastDelta' = Zero
         /\ UNCHANGED <<loopVars, numVars, pausedEmits, drawVars>>

(***************************************************************************)
(* Initial state: the script has run to its end (line 659) in a page that   *)
(* has the Webflow container, so that the visibility observer exists.  The  *)
(* first tick() of line 655 has run with no model, has started the clock    *)
(* and has requested the first frame.                                       *)
(***************************************************************************)
Init ==
    /\ isVisible = TRUE
    /\ pauseTimeout = 0
    /\ timers = {}
    /\ isRendering = TRUE
    /\ animationFrameId = 1
    /\ rafQueue = {1}
    /\ clock = [running |-> TRUE, autoStart |-> TRUE, sinceOld |-> 0]
    /\ model = FALSE
    /\ loaderPending = TRUE
    /\ autoRotate = TRUE
    /\ userInteracting = FALSE
    /\ resumeTimeout = 0
    /\ rotationSpeedMultiplier = One
    /\ sinceTransitionStart = TRANSITION_DURATION
    /\ isMouseDown = FALSE
    /\ isTouching = FALSE
    /\ rotationY = Zero
    /\ previousRotation = Zero
    /\ smoothedVelocity = Zero
    /\ uAngularVelocity = Zero
    /\ modelTicks = 0
    /\ ticked = FALSE
    /\ lastDelta = Zero
    /\ lastEvent = "none"
    /\ loopStopped = FALSE
    /\ sinceHidden = -1
    /\ pausedEmits = 0
    /\ sinceEnd = -1
    /\ drawFailed = FALSE
    /\ rendered = [rotationY |-> Zero, uAngularVelocity |-> Zero]
    /\ sinceFired = -1
    /\ firedStopped = FALSE

(***************************************************************************)
(* Passage of time.  A setTimeout callback runs when its delay has elapsed: *)
(* time does not pass the due time of a scheduled callback.  While a frame  *)
(* callback is outstanding, at most MaxGap passes between two readings of   *)
(* the clock.                                                               *)
(***************************************************************************)
Age(x, d, cap) == IF x < 0 THEN x ELSE Min(x + d, cap)

\* the transition time passes only while the render loop runs
TransitionElapsed_whileRendering(r, elapsed, d) ==
    IF r THEN Min(elapsed + d, TRANSITION_DURATION) ELSE elapsed

\* line 604: performance.now() - transitionStartTime after d more has passed,
\* whatever isRendering (r) is
TransitionElapsed(r, elapsed, d) == Min(elapsed + d, TRANSITION_DURATION)

Advance ==
    \E d \in Steps :
        /\ \A t \in timers : d <= t.left
        /\ (clock.running /\ rafQueue # {}) => clock.sinceOld + d <= MaxGap
        /\ timers' = {[t EXCEPT !.left = @ - d] : t \in timers}
        /\ clock' = [clock EXCEPT !.sinceOld = Min(@ + d, MaxGap)]
        /\ sinceTransitionStart' = IF TransitionRead(autoRotate, rotationSpeedMultiplier)
                                   THEN TransitionElapsed(isRendering, sinceTransitionStart, d)
                                   ELSE TRANSITION_DURATION
        /\ sinceHidden' = Age(sinceHidden, d, PAUSE_DELAY)
        /\ sinceEnd' = Age(sinceEnd, d, RESUME_DELAY)
        /\ sinceFired' = Age(sinceFired, d, TRANSITION_DURATION)
        /\ ticked' = FALSE
        /\ lastDelta' = Zero
        /\ lastEvent' = "none"
        /\ UNCHANGED <<visVars, isRendering, animationFrameId, rafQueue, autoRotate,
                       userInteracting, resumeTimeout, pressVars, numVars, loadVars,
                       loopStopped, pausedEmits, drawVars, firedStopped>>

(***************************************************************************)
(* The browser runs an outstanding animation frame callback (tick).  A      *)
(* callback runs in a later frame than the one in which it was requested:   *)
(* time has passed since the requesting tick read the clock.                *)
(***************************************************************************)
Frame(drawn) ==
    \E id \in rafQueue :
        /\ clock.running => clock.sinceOld > 0
        /\ isRendering => TickAllowed
        /\ tick(isRendering, clock, rafQueue \ {id}, drawn)
        /\ lastEvent' = "none"
        /\ UNCHANGED <<timers, isRendering, visVars, rotVars, pressVars, loadVars, histVars,
                       fireVars>>

(***************************************************************************)
(* gltfLoader.load callbacks (lines 314-376).                               *)
(***************************************************************************)
ModelReady ==
    /\ loaderPending
    /\ loaderPending' = FALSE
    /\ model' = TRUE
    /\ ticked' = FALSE
    /\ lastDelta' = Zero
    /\ lastEvent' = "none"
    /\ UNCHANGED <<timers, visVars, loopVars, rotVars, pressVars, numVars, histVars,
                   drawVars, fireVars>>

\* the error callback also stops the render loop
ModelError_stopsLoop ==
    /\ loaderPending
    /\ loaderPending' = FALSE
    /\ model' = FALSE
    /\ isRendering' = FALSE
    /\ ticked' = FALSE
    /\ lastDelta' = Zero
    /\ lastEvent' = "modelError"
    /\ UNCHANGED <<timers, visVars, animationFrameId, rafQueue, clock, rotVars, pressVars,
                   numVars, histVars, drawVars, fireVars>>

\* lines 357-375; lastEvent records the 'webglError' event of line 369
ModelError ==
    /\ loaderPending
    /\ loaderPending' = FALSE
    /\ model' = FALSE
    /\ ticked' = FALSE
    /\ lastDelta' = Zero
    /\ lastEvent' = "modelError"
    /\ UNCHANGED <<timers, visVars, loopVars, rotVars, pressVars, numVars, histVars,
                   drawVars, fireVars>>

(***************************************************************************)
(* VisibilityManager: the IntersectionObserver callback for one entry       *)
(* (lines 167-187) and the pause timer callback (lines 182-184).            *)
(***************************************************************************)
\* the pending pause timer is left alone
ClearPause_kept(ts, id) == ts

\* lines 172-175
ClearPause(ts, id) == IF id # 0 THEN ClearTimeout(ts, id) ELSE ts

ObserverEntry(isIntersecting, drawn) ==
    LET wasVisible == isVisible
        cleared == ClearPause(timers, pauseTimeout)
    IN  /\ isVisible' = isIntersecting
        /\ IF isIntersecting /\ ~wasVisible
           THEN /\ pauseTimeout' = 0
                /\ timers' = cleared
                /\ handleVisibilityChange(TRUE, drawn)
                /\ loopStopped' = FALSE
                /\ sinceHidden' = -1
                /\ lastEvent' = IF sinceHidden < PAUSE_DELAY THEN "visibleEarly"
                                 ELSE IF loopStopped THEN "visibleAfterPause"
                                 ELSE "visibleOther"
           ELSE IF ~isIntersecting /\ wasVisible
           THEN LET id == NewTimerId(cleared, "pause")
                IN  /\ pauseTimeout' = id
                    /\ timers' = SetTimeout(cleared, id, "pause", PAUSE_DELAY)
                    /\ sinceHidden' = 0
                    /\ pausedEmits' = 0
                    /\ ticked' = FALSE
                    /\ lastDelta' = Zero
                    /\ lastEvent' = "none"
                    /\ UNCHANGED <<loopVars, numVars, loopStopped, drawVars>>
           ELSE /\ pauseTimeout' = 0
                /\ timers' = cleared
                /\ ticked' = FALSE
                /\ lastDelta' = Zero
                /\ lastEvent' = IF ~isIntersecting /\ sinceHidden = PAUSE_DELAY
                                 THEN "hiddenAfterDelay"
                                 ELSE "none"
                /\ UNCHANGED <<loopVars, numVars, loopStopped, sinceHidden, pausedEmits,
                               drawVars>>
        /\ UNCHANGED <<rotVars, pressVars, loadVars, sinceEnd, fireVars>>

PauseTimerFires ==
    \E t \in timers :
        /\ t.kind = "pause"
        /\ t.left = 0
        /\ timers' = timers \ {t}
        /\ handleVisibilityChange(FALSE, TRUE)
        /\ loopStopped' = TRUE
        /\ lastEvent' = "none"
        /\ UNCHANGED <<visVars, rotVars, pressVars, loadVars, sinceHidden, sinceEnd,
                       fireVars>>

(***************************************************************************)
(* Auto-rotation system (lines 493-578).                                    *)
(***************************************************************************)
\* resumeRotation, lines 505-522 (the timer callback is ResumeTimerFires)
resumeRotation ==
    /\ userInteracting' = FALSE
    /\ sinceEnd' = 0
    /\ IF pauseOnInteraction /\ rotationEnabled
       THEN LET cleared == ClearTimeout(timers, resumeTimeout)
                id == NewTimerId(cleared, "resume")
            IN  /\ resumeTimeout' = id
                /\ timers' = SetTimeout(cleared, id, "resume", RESUME_DELAY)
       ELSE UNCHANGED <<resumeTimeout, timers>>

\* the callback given to setTimeout, lines 510-520
ResumeTimerFires ==
    \E t \in timers :
        /\ t.kind = "resume"
        /\ t.left = 0
        /\ timers' = timers \ {t}
        /\ IF ~userInteracting
           THEN /\ autoRotate' = TRUE
                /\ IF smoothTransition
                   THEN /\ rotationSpeedMultiplier' = Zero
                        /\ sinceTransitionStart' = 0
                   ELSE /\ rotationSpeedMultiplier' = One
                        /\ UNCHANGED sinceTransitionStart
                /\ sinceFired' = 0
                /\ firedStopped' = ~isRendering
           ELSE UNCHANGED <<autoRotate, rotationSpeedMultiplier, sinceTransitionStart,
                            fireVars>>
        /\ ticked' = FALSE
        /\ lastDelta' = Zero
        /\ lastEvent' = "none"
        /\ UNCHANGED <<visVars, loopVars, pressVars, loadVars, histVars,
                       userInteracting, resumeTimeout, rotationY, previousRotation,
                       smoothedVelocity, uAngularVelocity, modelTicks, drawVars>>

\* the part of the state no pointer, touch or controls listener touches
inputFrame == <<visVars, loopVars, loadVars, rotationY, previousRotation,
                smoothedVelocity, uAngularVelocity, modelTicks,
                loopStopped, sinceHidden, pausedEmits, drawVars>>

\* lines 527-532
MouseDown(button) ==
    /\ isMouseDown' = (IF button = 0 THEN TRUE ELSE isMouseDown)
    /\ ticked' = FALSE
    /\ lastDelta' = Zero
    /\ lastEvent' = "none"
    /\ UNCHANGED <<inputFrame, timers, rotVars, isTouching, rotationSpeedMultiplier, sinceEnd,
                   fireVars>>

\* lines 534-537
MouseUp ==
    /\ isMouseDown' = FALSE
    /\ ticked' = FALSE
    /\ lastDelta' = Zero
    /\ lastEvent' = "none"
    /\ UNCHANGED <<inputFrame, timers, rotVars, isTouching, rotationSpeedMultiplier, sinceEnd,
                   fireVars>>

\* lines 539-543
MouseLeave ==
    /\ isMouseDown' = FALSE
    /\ IF userInteracting
       THEN resumeRotation
       ELSE UNCHANGED <<userInteracting, resumeTimeout, timers, sinceEnd>>
    /\ ticked' = FALSE
    /\ lastDelta' = Zero
    /\ lastEvent' = "none"
    /\ UNCHANGED <<inputFrame, autoRotate, sinceTransitionStart, isTouching,
                   rotationSpeedMultiplier, fireVars>>

\* lines 547-550
TouchStart ==
    /\ isTouching' = TRUE
    /\ ticked' = FALSE
    /\ lastDelta' = Zero
    /\ lastEvent' = "none"
    /\ UNCHANGED <<inputFrame, timers, rotVars, isMouseDown, rotationSpeedMultiplier, sinceEnd,
                   fireVars>>

\* lines 552-555
TouchEnd ==
    /\ isTouching' = FALSE
    /\ ticked' = FALSE
    /\ lastDelta' = Zero
    /\ lastEvent' = "none"
    /\ UNCHANGED <<inputFrame, timers, rotVars, isMouseDown, rotationSpeedMultiplier, sinceEnd,
                   fireVars>>

\* lines 557-560
TouchCancel ==
    /\ isTouching' = FALSE
    /\ ticked' = FALSE
    /\ lastDelta' = Zero
    /\ lastEvent' = "none"
    /\ UNCHANGED <<inputFrame, timers, rotVars, isMouseDown, rotationSpeedMultiplier, sinceEnd,
                   fireVars>>

\* every start is taken for a press
PressActive_always(md, tc) == TRUE

\* line 564
PressActive(md, tc) == md \/ tc

\* the multiplier is left as it was
StartMultiplier_kept(m) == m

\* line 569
StartMultiplier(m) == Zero

\* the pending resume timer is left alone
StartClearsTimeout_none(ts, id) == ts

\* line 572
StartClearsTimeout(ts, id) == ClearTimeout(ts, id)

\* lines 563-574
ControlsStart ==
    /\ IF PressActive(isMouseDown, isTouching)
       THEN /\ userInteracting' = TRUE
            /\ IF pauseOnInteraction
               THEN /\ autoRotate' = FALSE
                    /\ rotationSpeedMultiplier' = StartMultiplier(rotationSpeedMultiplier)
               ELSE UNCHANGED <<autoRotate, rotationSpeedMultiplier>>
            /\ timers' = StartClearsTimeout(timers, resumeTimeout)
            /\ sinceEnd' = -1
            /\ sinceFired' = -1
            /\ firedStopped' = FALSE
       ELSE UNCHANGED <<userInteracting, autoRotate, rotationSpeedMultiplier, timers, sinceEnd,
                        fireVars>>
    /\ lastEvent' = IF \E t \in timers : t.kind = "resume"
                     THEN IF PressActive(isMouseDown, isTouching)
                          THEN "startCancel"
                          ELSE "startIgnored"
                     ELSE "none"
    /\ ticked' = FALSE
    /\ lastDelta' = Zero
    /\ UNCHANGED <<inputFrame, resumeTimeout, sinceTransitionStart, pressVars>>

\* resumeRotation is called without testing userInteracting
ControlsEnd_always ==
    /\ resumeRotation
    /\ ticked' = FALSE
    /\ lastDelta' = Zero
    /\ lastEvent' = "none"
    /\ UNCHANGED <<inputFrame, autoRotate, sinceTransitionStart, pressVars,
                   rotationSpeedMultiplier, fireVars>>

\* lines 576-578
ControlsEnd ==
    /\ IF userInteracting
       THEN resumeRotation
       ELSE UNCHANGED <<userInteracting, resumeTimeout, timers, sinceEnd>>
    /\ ticked' = FALSE
    /\ lastDelta' = Zero
    /\ lastEvent' = IF ~userInteracting /\ \E t \in timers : t.kind = "resume"
                     THEN "endIgnored"
                     ELSE "none"
    /\ UNCHANGED <<inputFrame, autoRotate, sinceTransitionStart, pressVars,
                   rotationSpeedMultiplier, fireVars>>

(***************************************************************************)
(* Specification.                                                           *)
(***************************************************************************)
Next ==
    \/ Advance
    \/ Frame(TRUE)
    \/ ModelReady
    \/ ModelError
    \/ \E b \in BOOLEAN : ObserverEntry(b, TRUE)
    \/ PauseTimerFires
    \/ ResumeTimerFires
    \/ \E button \in {0, 2} : MouseDown(button)
    \/ MouseUp
    \/ MouseLeave
    \/ TouchStart
    \/ TouchEnd
    \/ TouchCancel
    \/ ControlsStart
    \/ ControlsEnd

Spec == Init /\ [][Next]_vars

(***************************************************************************)
(* The motion blur update of tick (lines 616-627) on its own, for any       *)
(* current rotation and any delta: the model is loaded and every step is    *)
(* one update, given the angle the model has at line 617 and the delta of   *)
(* line 599.  Angles are radians, deltas seconds.                           *)
(***************************************************************************)
Angles == {Zero, <<1, 500>>, <<1, 10>>, <<-1, 1>>}
Deltas == {Zero, <<1, 60>>, <<1, 10>>}

MotionBlurUpdate(currentRotation, delta) ==
    /\ model
    /\ modelTicks < MaxUpdates
    /\ LET s == Smooth(smoothedVelocity,
                       RawVelocity(currentRotation, previousRotation, delta))
       IN  /\ smoothedVelocity' = s
           /\ uAngularVelocity' = UniformWrite(uAngularVelocity, Normalize(s))
           /\ previousRotation' = currentRotation
    /\ rotationY' = currentRotation
    /\ modelTicks' = modelTicks + 1
    /\ ticked' = TRUE
    /\ lastDelta' = delta
    /\ lastEvent' = "none"
    /\ UNCHANGED <<timers, visVars, loopVars, rotVars, pressVars, loadVars, histVars,
                   rotationSpeedMultiplier, drawVars, fireVars>>

NextBlur ==
    \/ ModelReady
    \/ \E a \in Angles, d \in Deltas : MotionBlurUpdate(a, d)

SpecBlur == Init /\ [][NextBlur]_vars

(***************************************************************************)
(* The script with a renderer whose render call may throw: in a frame       *)
(* callback, or in the tick that handleVisibilityChange(true) runs inside   *)
(* the observer callback.  Nothing in the script catches the exception.     *)
(* The page receives visibility notifications and no pointer or touch       *)
(* input.                                                                   *)
(***************************************************************************)
NextDraw ==
    \/ Advance
    \/ Frame(TRUE)
    \/ isRendering /\ Frame(FALSE)
    \/ ModelReady
    \/ ModelError
    \/ \E b \in BOOLEAN : ObserverEntry(b, TRUE)
    \/ ~isVisible /\ ~isRendering /\ ObserverEntry(TRUE, FALSE)
    \/ PauseTimerFires

SpecDraw == Init /\ [][NextDraw]_vars

(***************************************************************************)
(* Properties.                                                              *)
(***************************************************************************)
Alive(kind) == {t \in timers : t.kind = kind}

\* the states of the rotation machine, in terms of the script's variables
Interacting == userInteracting
ResumeScheduled == ~userInteracting /\ ~autoRotate
Transitioning == ~userInteracting /\ autoRotate /\ FLess(rotationSpeedMultiplier, One)
AutoRotating == ~userInteracting /\ autoRotate /\ rotationSpeedMultiplier = One

C2_NoTickAfterStop ==
    loopStopped => ~ticked /\ rafQueue = {} /\ ~isRendering

\* the loop has been stopped while it had a frame callback scheduled
C2_Witness ==
    /\ loopStopped
    /\ pausedEmits = 1
    /\ animationFrameId = 0
    /\ ~clock.running

\* C3: while a hidden interval is shorter than PAUSE_DELAY the loop runs, the
\* clock runs and no pause has been emitted; a visible notification ending
\* such an interval cancels the pause timer, executes no tick and leaves the
\* clock running with its baseline.
C3_Debounce ==
    /\ (sinceHidden >= 0 /\ sinceHidden < PAUSE_DELAY)
          => isRendering /\ clock.running /\ pausedEmits = 0 /\ ~loopStopped
    /\ lastEvent = "visibleEarly"
          => /\ Alive("pause") = {}
             /\ isRendering /\ clock.running /\ ~ticked
             /\ pausedEmits = 0 /\ ~loopStopped

\* a visible notification ended a short hidden interval; the clock still
\* counts from the frame before it
C3_Witness ==
    /\ lastEvent = "visibleEarly"
    /\ clock.running
    /\ clock.sinceOld > 0
    /\ pauseTimeout = 0

\* C4 (as claimed): once PAUSE_DELAY has elapsed in a hidden interval and the
\* pause callback is not waiting to run, the loop is stopped and exactly one
\* pause has been emitted (the state just after a not-intersecting
\* notification delivered when the delay had already elapsed is left out).
C4_PersistentHidePauses ==
    (~isVisible /\ sinceHidden = PAUSE_DELAY /\ Alive("pause") = {}
                /\ lastEvent # "hiddenAfterDelay")
        => ~isRendering /\ pausedEmits = 1

\* C5: whenever the last notification reported intersecting, no pause timer is
\* pending and the loop is running; the visible notification after a completed
\* pause restarts the loop, with the clock restarted before the tick it runs.
C5_VisibleImpliesRunning ==
    /\ isVisible => Alive("pause") = {} /\ isRendering /\ ~loopStopped
    /\ lastEvent = "visibleAfterPause"
          => isRendering /\ clock.running /\ ticked /\ Cardinality(rafQueue) = 1

\* the loop has been restarted by a visible notification after a pause
C5_Witness ==
    /\ lastEvent = "visibleAfterPause"
    /\ isVisible
    /\ isRendering
    /\ pausedEmits = 1

\* C6: the tick run by a restart computes a delta of 0, the time since the
\* restart, whatever time passed while the loop was stopped, and leaves the
\* clock counting from the restart.
C6_ResumeClock ==
    lastEvent = "visibleAfterPause"
        => ticked /\ lastDelta = Zero /\ clock.running /\ clock.sinceOld = 0

\* a restart with the model loaded and rotating at full speed
C6_Witness ==
    /\ lastEvent = "visibleAfterPause"
    /\ model
    /\ AutoRotating
    /\ lastDelta = Zero

\* C7: while the user interacts no resume timer is alive; from an honored
\* start until RESUME_DELAY has elapsed since the interaction end that
\* followed it, autoRotate is false and the multiplier is 0.
C7_StartCancelsResume ==
    /\ userInteracting => Alive("resume") = {} /\ sinceEnd = -1
    /\ (userInteracting \/ (sinceEnd >= 0 /\ sinceEnd < RESUME_DELAY))
          => ~autoRotate /\ rotationSpeedMultiplier = Zero
    /\ lastEvent = "startCancel" => Interacting /\ Alive("resume") = {}

\* an honored start has cancelled the resume timer of an earlier end
C7_Witness ==
    /\ lastEvent = "startCancel"
    /\ userInteracting
    /\ resumeTimeout # 0

\* C8: at most one resume timer and at most one pause timer is alive.
C8_TimerUniqueness ==
    /\ Cardinality(Alive("resume")) <= 1
    /\ Cardinality(Alive("pause")) <= 1

\* a pause timer and a resume timer are alive, each the one the script
\* holds the handle of, and both have run for a while
C8_Witness ==
    /\ Cardinality(Alive("resume")) = 1
    /\ Cardinality(Alive("pause")) = 1
    /\ \E t \in Alive("resume") : t.id = resumeTimeout /\ t.left < RESUME_DELAY
    /\ \E t \in Alive("pause") : t.id = pauseTimeout /\ t.left < PAUSE_DELAY

\* C9: the multiplier lies in [0, 1] and is 0 while Interacting or
\* ResumeScheduled.
C9_SpeedMultiplier ==
    /\ FLeq(Zero, rotationSpeedMultiplier)
    /\ FLeq(rotationSpeedMultiplier, One)
    /\ (Interacting \/ ResumeScheduled) => rotationSpeedMultiplier = Zero

\* the multiplier is strictly between 0 and 1 during a transition
C9_Witness ==
    /\ Transitioning
    /\ FLess(Zero, rotationSpeedMultiplier)
    /\ FLess(rotationSpeedMultiplier, One)

\* C10: a tick with the model loaded adds AUTO_ROTATE_SPEED * multiplier *
\* delta to the angle, with the multiplier as that tick has updated it, when
\* the machine is AutoRotating or Transitioning, and leaves the angle
\* unchanged when it is Interacting or ResumeScheduled.
C10_RotationAdvance ==
    [][(ticked' /\ model) =>
          /\ (AutoRotating \/ Transitioning)
                => rotationY' = FAdd(rotationY,
                                     FMul(FMul(AUTO_ROTATE_SPEED, rotationSpeedMultiplier'),
                                          lastDelta'))
          /\ (Interacting \/ ResumeScheduled) => rotationY' = rotationY]_vars

\* a tick during a transition has advanced the angle
C10_Witness ==
    /\ ticked
    /\ model
    /\ Transitioning
    /\ FLess(Zero, rotationSpeedMultiplier)
    /\ FLess(Zero, lastDelta)
    /\ FLess(Zero, rotationY)

\* a step in which the callback of the resume timer runs
ResumeFired == Alive("resume") # {} /\ Alive("resume")' = {} /\ ~userInteracting'

\* C11: after an interaction end, and with no honored start since, the machine
\* is ResumeScheduled with multiplier 0 and an unchanged angle until
\* RESUME_DELAY has elapsed; the resume timer fires exactly then and enters
\* Transitioning with multiplier 0 and the transition time at 0; every tick
\* with the model loaded during the transition sets the multiplier to
\* x * (2 - x), x = min(elapsed / TRANSITION_DURATION, 1), which is 1, and the
\* machine AutoRotating, once TRANSITION_DURATION has elapsed; AutoRotating is
\* then kept until the next honored start.
C11_ResumeTimeline ==
    [][ /\ (sinceEnd' >= 0 /\ sinceEnd' < RESUME_DELAY)
             => ResumeScheduled' /\ rotationSpeedMultiplier' = Zero /\ rotationY' = rotationY
        /\ ResumeFired
             => /\ sinceEnd = RESUME_DELAY
                /\ Transitioning' /\ rotationSpeedMultiplier' = Zero
                /\ sinceTransitionStart' = 0
        /\ (ticked' /\ model /\ Transitioning)
             => LET x == IF sinceTransitionStart >= TRANSITION_DURATION
                         THEN One
                         ELSE Frac(sinceTransitionStart, TRANSITION_DURATION)
                IN  /\ rotationSpeedMultiplier' = FMul(x, FSub(<<2, 1>>, x))
                    /\ sinceTransitionStart < TRANSITION_DURATION => Transitioning'
                    /\ sinceTransitionStart >= TRANSITION_DURATION
                          => AutoRotating' /\ rotationSpeedMultiplier' = One
        /\ (AutoRotating /\ ~userInteracting') => AutoRotating'
      ]_vars

\* a tick with the model loaded has ended a transition, the loop having run
\* since the interaction end, and the model turns at full speed
C11_Witness ==
    /\ ticked /\ model
    /\ AutoRotating
    /\ sinceEnd = RESUME_DELAY
    /\ ~loopStopped /\ pausedEmits = 0 /\ isVisible
    /\ modelTicks = MaxTicks
    /\ FLess(Zero, rotationY)
    /\ FLess(Zero, lastDelta)

\* C12: a 'start' handled while neither press flag is set leaves
\* userInteracting, autoRotate, the multiplier and the resume timer as they
\* were; a 'start' handled while isMouseDown or isTouching is set makes the
\* machine Interacting, with autoRotate off, multiplier 0 and no resume timer.
C12_PressFilter ==
    [][ControlsStart =>
          /\ ~(isMouseDown \/ isTouching)
                => UNCHANGED <<userInteracting, autoRotate, rotationSpeedMultiplier,
                               resumeTimeout, timers, sinceTransitionStart>>
          /\ (isMouseDown \/ isTouching)
                => /\ Interacting'
                   /\ ~autoRotate'
                   /\ rotationSpeedMultiplier' = Zero
                   /\ Alive("resume")' = {}
      ]_vars

\* a 'start' with no press has been handled while a resume was scheduled, and
\* the schedule stands
C12_Witness ==
    /\ lastEvent = "startIgnored"
    /\ ~isMouseDown /\ ~isTouching
    /\ ResumeScheduled
    /\ \E t \in Alive("resume") : t.id = resumeTimeout /\ t.left < RESUME_DELAY

\* C13: the angularVelocity uniform lies in [0, 1] and smoothedVelocity is not
\* negative, after any sequence of motion blur updates with any angles and
\* any deltas >= 0.
C13_UniformRange ==
    /\ FLeq(Zero, uAngularVelocity)
    /\ FLeq(uAngularVelocity, One)
    /\ FLeq(Zero, smoothedVelocity)

\* the smoothed velocity times the intensity exceeds 1 and the uniform is 1
C13_Witness ==
    /\ ticked
    /\ FLess(One, FMul(smoothedVelocity, motionIntensity))
    /\ uAngularVelocity = One

\* C14: smoothedVelocity is 0 until the first tick with the model loaded; each
\* such tick sets it to 9/10 of its value plus 1/10 of the raw velocity
\* |angle after the tick - previousRotation| / max(delta, 1/1000) and records
\* the angle in previousRotation; no other step changes either, so the update
\* is applied exactly once per tick with the model loaded.
C14_SmoothingRecurrence ==
    [][ /\ modelTicks = 0 => smoothedVelocity = Zero /\ previousRotation = Zero
        /\ (ticked' /\ model)
              => LET floor == <<1, 1000>>
                     dt == IF FLess(lastDelta', floor) THEN floor ELSE lastDelta'
                     raw == FDiv(FAbs(FSub(rotationY', previousRotation)), dt)
                 IN  /\ smoothedVelocity' = FAdd(FMul(<<9, 10>>, smoothedVelocity),
                                                 FMul(<<1, 10>>, raw))
                     /\ previousRotation' = rotationY'
                     /\ modelTicks' = modelTicks + 1
        /\ ~(ticked' /\ model)
              => UNCHANGED <<smoothedVelocity, previousRotation, modelTicks>>
      ]_vars

\* a second tick with the model loaded has smoothed its velocity with what
\* the first one left: the result exceeds this tick's own share
C14_Witness ==
    /\ ticked /\ model
    /\ modelTicks = MaxTicks
    /\ FLess(Zero, lastDelta)
    /\ previousRotation = rotationY
    /\ FLess(Zero, smoothedVelocity)
    /\ FLess(Zero, rotationSpeedMultiplier)
    /\ FLess(FMul(FSub(One, velocitySmoothing),
                   FMul(AUTO_ROTATE_SPEED, rotationSpeedMultiplier)),
             smoothedVelocity)

\* C15 (as claimed): once a draw call has failed, no frame callback is
\* outstanding and no step executes a tick body again, whatever visibility
\* notifications and timer callbacks follow.
C15_NoTickAfterDrawFailure ==
    [][drawFailed => ~ticked' /\ rafQueue' = {}]_vars

\* C16: the step of the loader's error callback emits the error event and
\* leaves isRendering, the outstanding frame callback and the clock as they
\* were, with no model; every tick without a model (before model-ready, or
\* after a load error) draws and leaves exactly its new callback outstanding,
\* and changes none of the angle, the multiplier, smoothedVelocity,
\* previousRotation and the uniform.
C16_LoadFailure ==
    [][ /\ (loaderPending /\ ~loaderPending' /\ ~model')
              => /\ lastEvent' = "modelError"
                 /\ UNCHANGED <<isRendering, animationFrameId, rafQueue, clock>>
        /\ (ticked' /\ ~model)
              => /\ UNCHANGED <<rotationY, rotationSpeedMultiplier, smoothedVelocity,
                                previousRotation, uAngularVelocity>>
                 /\ ~drawFailed'
                 /\ isRendering'
                 /\ animationFrameId' # 0
                 /\ rafQueue' = {animationFrameId'}
      ]_vars

\* after a load error a tick has run at a time at which, with a model, it
\* would have raised the multiplier from 0
C16_Witness ==
    /\ ticked
    /\ ~model /\ ~loaderPending
    /\ autoRotate /\ ~userInteracting
    /\ rotationSpeedMultiplier = Zero
    /\ sinceTransitionStart > 0
    /\ FLess(Zero, lastDelta)
    /\ rotationY = Zero

\* C17: a step that stops the render loop (isRendering becomes false) and a
\* step that restarts it (isRendering becomes true), the tick of the restart
\* included, leave userInteracting, autoRotate, the resume timer with its
\* remaining time, transitionStartTime and the model angle as they were; the
\* stop also leaves the multiplier and the motion blur state.
C17_PauseKeepsRotationState ==
    [][ /\ (isRendering # isRendering')
              => /\ UNCHANGED <<userInteracting, autoRotate, resumeTimeout,
                                sinceTransitionStart, rotationY>>
                 /\ Alive("resume")' = Alive("resume")
        /\ (isRendering /\ ~isRendering')
              => UNCHANGED <<rotationSpeedMultiplier, previousRotation, smoothedVelocity,
                             uAngularVelocity>>
      ]_vars

\* the loop has been restarted after a pause while a resume was scheduled and
\* the model had already turned
C17_Witness ==
    /\ lastEvent = "visibleAfterPause"
    /\ model
    /\ ResumeScheduled
    /\ \E t \in Alive("resume") : t.id = resumeTimeout /\ t.left < RESUME_DELAY
    /\ FLess(Zero, rotationY)

\* C18: a motion blur update changes the uniform only when the normalized
\* velocity of the update (smoothedVelocity times 5, capped at 1) differs
\* from it by more than 1/100, it then stores exactly the normalized velocity,
\* and it does so whenever they differ by more than 1/100; so after the
\* update the uniform is within 1/100 of the normalized velocity.
C18_WriteSuppression ==
    [][ticked' =>
          LET scaled == FMul(<<5, 1>>, smoothedVelocity')
              n == IF FLess(One, scaled) THEN One ELSE scaled
              far == FLess(<<1, 100>>, FAbs(FSub(uAngularVelocity, n)))
          IN  /\ far => uAngularVelocity' = n
              /\ ~far => uAngularVelocity' = uAngularVelocity
              /\ FLeq(FAbs(FSub(uAngularVelocity', n)), <<1, 100>>)
      ]_vars

\* an update has left a uniform written earlier as it was, the normalized
\* velocity having moved by less than 1/100
C18_Witness ==
    /\ ticked
    /\ FLess(Zero, uAngularVelocity)
    /\ FLess(FMul(<<5, 1>>, smoothedVelocity), One)
    /\ uAngularVelocity # FMul(<<5, 1>>, smoothedVelocity)

\* C19: in every tick body the delta is read first (the time since the clock
\* was last read, 0 in the tick of a restart); the angle advances by the
\* multiplier as this tick has set it and by this delta; the motion blur
\* update reads the advanced angle and the uniform is within 1/100 of the
\* velocity it normalizes; renderer.render finds the angle and the uniform
\* as this tick leaves them; and the next callback is requested only when
\* renderer.render has returned: a tick whose draw throws requests none.
C19_TickOrdering ==
    [][ticked' =>
          LET delta == IF isRendering THEN Seconds(clock.sinceOld) ELSE Zero
              scaled == FMul(<<5, 1>>, smoothedVelocity')
              n == IF FLess(One, scaled) THEN One ELSE scaled
          IN  /\ lastDelta' = delta
              /\ clock'.sinceOld = 0
              /\ model
                    => /\ (autoRotate /\ ~userInteracting)
                             => rotationY' =
                                   FAdd(rotationY,
                                        FMul(FMul(AUTO_ROTATE_SPEED,
                                                  rotationSpeedMultiplier'), delta))
                       /\ previousRotation' = rotationY'
                       /\ FLeq(FAbs(FSub(uAngularVelocity', n)), <<1, 100>>)
              /\ rendered' = [rotationY |-> rotationY',
                              uAngularVelocity |-> uAngularVelocity']
              /\ drawFailed'
                    => rafQueue' \subseteq rafQueue /\ animationFrameId' = animationFrameId
              /\ ~drawFailed'
                    => rafQueue' = {animationFrameId'} /\ animationFrameId' # 0
      ]_vars

\* a tick with the model loaded has turned the model and written the
\* uniform, its draw has thrown, and no callback is outstanding
C19_Witness ==
    /\ ticked /\ model
    /\ drawFailed
    /\ FLess(Zero, lastDelta)
    /\ FLess(Zero, rotationY)
    /\ rendered = [rotationY |-> rotationY, uAngularVelocity |-> uAngularVelocity]
    /\ FLess(Zero, uAngularVelocity)
    /\ isRendering
    /\ rafQueue = {}

\* C20: a controls 'end' or a mouseleave handled while userInteracting is
\* false leaves userInteracting, autoRotate, the multiplier, the resume timer
\* with its remaining time, transitionStartTime and the angle as they were;
\* a scheduled resume timer is always due RESUME_DELAY after the end signal
\* that was handled while interacting, and fires then.
C20_EndWhileNotInteracting ==
    [][ /\ (~userInteracting /\ ~ticked' /\ (ControlsEnd \/ MouseLeave))
              => UNCHANGED <<userInteracting, autoRotate, rotationSpeedMultiplier,
                             resumeTimeout, timers, sinceTransitionStart, rotationY>>
        /\ \A t \in Alive("resume")' : t.left + sinceEnd' = RESUME_DELAY
        /\ ResumeFired => sinceEnd = RESUME_DELAY
      ]_vars

\* a controls 'end' has been handled after the resume had been scheduled, and
\* the timer keeps the time it had left
C20_Witness ==
    /\ lastEvent = "endIgnored"
    /\ ~userInteracting
    /\ sinceEnd > 0
    /\ \E t \in Alive("resume") : t.id = resumeTimeout /\ t.left = RESUME_DELAY - sinceEnd

\* C21: the resume timer and the transition time follow wall-clock time
\* whether the render loop runs or not: while the loop is stopped a scheduled
\* resume timer is still due RESUME_DELAY after the interaction end, and the
\* step that stops the loop leaves it scheduled; when it fires with the loop
\* stopped the machine becomes Transitioning with multiplier 0 and the loop
\* stays stopped; the tick of the restart, with the model loaded and a
\* transition under way, sets the multiplier to x * (2 - x),
\* x = min(time since the timer fired / TRANSITION_DURATION, 1), which is 1
\* when that time is at least TRANSITION_DURATION; and no step taken while
\* the loop is stopped, the restart included, changes the angle.
C21_WallClockResume ==
    [][ /\ (isRendering /\ ~isRendering') => Alive("resume")' = Alive("resume")
        /\ ~isRendering'
              => \A t \in Alive("resume")' : t.left = RESUME_DELAY - sinceEnd'
        /\ (~isRendering /\ ResumeFired)
              => /\ sinceEnd = RESUME_DELAY
                 /\ Transitioning'
                 /\ rotationSpeedMultiplier' = Zero
                 /\ ~isRendering'
        /\ (~isRendering /\ isRendering' /\ model /\ autoRotate
               /\ FLess(rotationSpeedMultiplier, One))
              => LET x == IF sinceFired >= TRANSITION_DURATION
                          THEN One
                          ELSE Frac(sinceFired, TRANSITION_DURATION)
                 IN  /\ ticked'
                     /\ sinceFired >= 0
                     /\ rotationSpeedMultiplier' = FMul(x, FSub(<<2, 1>>, x))
                     /\ sinceFired >= TRANSITION_DURATION => rotationSpeedMultiplier' = One
        /\ ~isRendering => rotationY' = rotationY
      ]_vars

\* the resume timer has fired while the loop was stopped, and the tick of the
\* restart, some time later, has raised the multiplier from 0 to a value
\* below 1 without turning the model
C21_Witness ==
    /\ lastEvent = "visibleAfterPause"
    /\ ticked /\ model
    /\ firedStopped
    /\ sinceFired > 0 /\ sinceFired < TRANSITION_DURATION
    /\ Transitioning
    /\ FLess(Zero, rotationSpeedMultiplier)
    /\ lastDelta = Zero
    /\ rotationY = Zero
    /\ modelTicks = 1

====
